---- MODULE Spec2Model ----
(***************************************************************************)
(* Model of the industria renderer core (src/renderer.rs and               *)
(* src/renderer/*.rs): the frame cursor and per-slot fences of Renderer,   *)
(* the Swapchain with its out_of_date flag, the VkContext teardown, and    *)
(* the window event handler of main.rs.                                    *)
(*                                                                         *)
(* Every operation records in `log` the sequence of device calls it made,  *)
(* in program order, and `live` is the set of Vulkan objects that exist:   *)
(* orderings and lifetimes are read off these two.                         *)
(***************************************************************************)
EXTENDS Integers, Sequences, FiniteSets, TLC

(* ---- bounds of the model ---------------------------------------------- *)
MaxCalls == 3           \* calls of next_sync_object explored
MaxChains == 2          \* swapchains ever created (the first one included)
MaxMinImageCount == 1   \* largest capabilities.min_image_count
MaxMaxImageCount == 2   \* largest declared capabilities.max_image_count
MaxExtraImages == 1     \* images the driver may create beyond the request
MaxFormats == 3         \* longest list of surface formats
MaxPresentModes == 4    \* longest list of present modes
MaxFamilies == 2        \* most queue families of a physical device
MaxDevices == 2         \* most physical devices the instance enumerates
MaxInstanceCount == 2   \* max_instance_count, scaled down from the 1000 of
                        \* VoxelShader::new

(* ---- program constants ------------------------------------------------ *)
MAX_FRAMES_IN_FLIGHT == 2

VARIABLES
    current_frame,      \* Renderer.current_frame
    sync_objects,       \* Renderer.sync_objects: slot -> state of in_flight_fence
    swapchain,          \* Renderer.swapchain
    vk_context,         \* Renderer.vk_context
    dirty_swapchain,    \* main.rs: let mut dirty_swapchain
    live,               \* Vulkan objects created and not yet destroyed
    log,                \* device calls made by the last operation, in order
    lastOp,             \* the last operation that ran
    ret,                \* its return value ("NONE" when it returned nothing)
    driver_result,      \* what its acquire or present call got ("NONE" without one)
    slot,               \* index of the slot next_sync_object returned last
    calls,              \* number of next_sync_object calls so far
    chains,             \* number of swapchains created so far
    acquired_rets,      \* values begin_frame returned for frames that got an image
    status,             \* "running" | "blocked" | "panicked" | "dropped"
    voxel_shader,       \* Renderer.voxel_shader
    command_buffer,     \* a CommandBuffer of the Renderer's command pool
    available_formats,  \* SwapchainSupportDetails.formats
    surface_format,     \* what choose_swapchain_surface_format returned
    available_present_modes,    \* SwapchainSupportDetails.present_modes
    present_mode,       \* what choose_swapchain_surface_present_mode returned
    enumerated,         \* physical devices pick_physical_device has examined
    device,             \* the physical device examined last
    found_families,     \* what find_queue_families returned for it
    passed_over,        \* history: a rejected device met all five conditions
    pick_status,        \* "idle" | "searching" | "picked" | "panicked" | "created"
    queue_create_infos  \* queue family indices given to create_device

renderer_vars ==
    <<current_frame, sync_objects, swapchain, vk_context,
      dirty_swapchain, live, log, lastOp, ret, driver_result, slot,
      calls, chains, acquired_rets, status, voxel_shader>>

\* the inputs and results of the selection functions of Swapchain::new
selection_vars ==
    <<available_formats, surface_format, available_present_modes,
      present_mode>>

\* the state of VkContext::new while it selects and creates the device
device_vars ==
    <<enumerated, device, found_families, passed_over, pick_status,
      queue_create_infos>>

\* everything the Renderer's own operations leave alone
aux_vars == <<selection_vars, device_vars, command_buffer>>

\* the Renderer and its command buffer, which the selection of formats,
\* present modes and devices leaves alone
fixed_vars == <<renderer_vars, command_buffer>>

vars == <<renderer_vars, selection_vars, device_vars, command_buffer>>

Slots == 0 .. (MAX_FRAMES_IN_FLIGHT - 1)

(* ---- Vulkan objects and device calls ---------------------------------- *)
Obj(kind, id, sub) == [kind |-> kind, id |-> id, sub |-> sub]

Ev(call, obj) == [call |-> call, obj |-> obj]

CreateCalls == {"create_swapchain", "create_image_view"}

DestroyCalls ==
    {"destroy_swapchain", "destroy_image_view", "destroy_pipeline",
     "destroy_pipeline_layout", "destroy_descriptor_pool",
     "destroy_descriptor_set_layout", "destroy_semaphore", "destroy_fence",
     "destroy_command_pool", "destroy_device", "destroy_surface",
     "destroy_debug_utils_messenger", "destroy_instance"}

\* The objects alive after the device calls of `evs` have run on `l`.
RECURSIVE Apply(_, _)
Apply(l, evs) ==
    IF evs = <<>> THEN l
    ELSE LET e == Head(evs)
             l2 == IF e.call \in CreateCalls THEN l \cup {e.obj}
                   ELSE IF e.call \in DestroyCalls THEN l \ {e.obj}
                   ELSE l
         IN Apply(l2, Tail(evs))

\* The objects alive just before the p-th call of `evs`.
LiveAt(l, evs, p) == Apply(l, SubSeq(evs, 1, p - 1))

\* Objects that were created from the logical device.
DeviceChildKinds ==
    {"swapchain", "image_view", "pipeline", "pipeline_layout",
     "descriptor_pool", "descriptor_set_layout", "semaphore", "fence",
     "command_pool"}

(* ---- what the driver may report for the surface ----------------------- *)
SurfaceCapabilities ==
    { c \in [min_image_count : 1 .. MaxMinImageCount,
             max_image_count : 0 .. MaxMaxImageCount] :
        c.max_image_count = 0 \/ c.max_image_count >= c.min_image_count }

(* ---- Swapchain -------------------------------------------------------- *)
\* swapchain.rs: image_count block of Swapchain::new
ImageCount(caps) ==
    LET max == caps.max_image_count
        preferred == caps.min_image_count + 1
    IN IF max > 0 /\ preferred > max THEN max ELSE preferred

\* get_swapchain_images: the driver creates at least the image_count images
\* asked for in create_info.min_image_count, and `extra` more
SwapchainImages(caps, extra) ==
    [i \in 1 .. (ImageCount(caps) + extra) |-> i]

\* images.iter().map(create_image_view).collect()
ImageViews(handle, images) ==
    [i \in 1 .. Len(images) |-> Obj("image_view", handle, images[i])]

Swapchain_new(handle, caps, extra) ==
    LET images == SwapchainImages(caps, extra)
    IN [out_of_date |-> FALSE,
        image_views |-> ImageViews(handle, images),
        images      |-> images,
        handle      |-> handle]

Swapchain_new_calls(sc) ==
    <<Ev("get_surface_capabilities", Obj("surface", 0, 0)),
      Ev("create_swapchain", Obj("swapchain", sc.handle, 0))>>
    \o [i \in 1 .. Len(sc.image_views) |->
            Ev("create_image_view", sc.image_views[i])]

\* Swapchain::destroy with the chain destroyed ahead of its views
Swapchain_destroy_calls_chainFirst(sc) ==
    <<Ev("destroy_swapchain", Obj("swapchain", sc.handle, 0))>>
    \o [i \in 1 .. Len(sc.image_views) |->
            Ev("destroy_image_view", sc.image_views[i])]

Swapchain_destroy_calls(sc) ==
    [i \in 1 .. Len(sc.image_views) |->
        Ev("destroy_image_view", sc.image_views[i])]
    \o <<Ev("destroy_swapchain", Obj("swapchain", sc.handle, 0))>>


\* swapchain.rs:123-129: ash turns VK_SUCCESS and VK_SUBOPTIMAL_KHR into
\* Ok((index, suboptimal)) and every other code into Err(code).
AcquireResults ==
    {"SUCCESS", "SUBOPTIMAL_KHR", "ERROR_OUT_OF_DATE_KHR", "ERROR_DEVICE_LOST"}

\* Swapchain::acquire_next_image_index: what the match yields for result r.
\*   Ok((image_index, _))        => Some(image_index)
\*   Err(ERROR_OUT_OF_DATE_KHR)  => out_of_date = true; None
\*   _                           => None
acquire_next_image_index(sc, r) ==
    IF r \in {"SUCCESS", "SUBOPTIMAL_KHR"}
    THEN [swapchain |-> sc, value |-> "Some", panic |-> FALSE]
    ELSE IF r = "ERROR_OUT_OF_DATE_KHR"
    THEN [swapchain |-> [sc EXCEPT !.out_of_date = TRUE],
          value |-> "None", panic |-> FALSE]
    ELSE [swapchain |-> sc, value |-> "None", panic |-> FALSE]

\* swapchain.rs:160-162: ash turns VK_SUCCESS into Ok(false), VK_SUBOPTIMAL_KHR
\* into Ok(true) and every other code into Err(code).
PresentResults ==
    {"SUCCESS", "SUBOPTIMAL_KHR", "ERROR_OUT_OF_DATE_KHR", "ERROR_DEVICE_LOST"}

\* Swapchain::present: what the match yields for driver result r.
\*   Ok(true)                    => return true
\*   Err(ERROR_OUT_OF_DATE_KHR)  => out_of_date = true   (falls to `false`)
\*   Err(error)                  => panic!
\*   _                           => {}                    (falls to `false`)
present(sc, r) ==
    IF r = "SUBOPTIMAL_KHR"
    THEN [swapchain |-> sc, value |-> TRUE, panic |-> FALSE]
    ELSE IF r = "ERROR_OUT_OF_DATE_KHR"
    THEN [swapchain |-> [sc EXCEPT !.out_of_date = TRUE],
          value |-> FALSE, panic |-> FALSE]
    ELSE IF r = "SUCCESS"
    THEN [swapchain |-> sc, value |-> FALSE, panic |-> FALSE]
    ELSE [swapchain |-> sc, value |-> "NONE", panic |-> TRUE]

(* ---- Renderer --------------------------------------------------------- *)
\* next_sync_object without the advance of the cursor
next_sync_object_stuck(cf) == cf % MAX_FRAMES_IN_FLIGHT

\* Renderer::next_sync_object: the cursor after the call
next_sync_object(cf) == (cf + 1) % MAX_FRAMES_IN_FLIGHT

WaitResults == {"SUCCESS", "ERROR_DEVICE_LOST"}

\* begin_frame with the fence reset ahead of the acquire
begin_frame_calls_resetFirst(s, waited, acquired) ==
    <<Ev("wait_for_fences", Obj("fence", s, 0))>>
    \o (IF waited
        THEN <<Ev("reset_fences", Obj("fence", s, 0)),
               Ev("acquire_next_image", Obj("semaphore", s, 0))>>
        ELSE <<>>)

\* Renderer::begin_frame: the device calls it makes on slot s, given whether
\* wait_for_fences returned and whether the acquire yielded an image.
begin_frame_calls(s, waited, acquired) ==
    <<Ev("wait_for_fences", Obj("fence", s, 0))>>
    \o (IF waited
        THEN <<Ev("acquire_next_image", Obj("semaphore", s, 0))>>
             \o (IF acquired
                 THEN <<Ev("reset_fences", Obj("fence", s, 0))>>
                 ELSE <<>>)
        ELSE <<>>)

\* Renderer::begin_frame: the value it returns, with or without an image
\*   None => return true,      (renderer.rs:102)
\*   true                      (renderer.rs:107)
begin_frame_ret(acquired) == IF acquired THEN TRUE ELSE TRUE

HasCall(evs, call) == \E p \in DOMAIN evs : evs[p].call = call

\* VkContext::wait_gpu_idle: blocks until all queued GPU work has completed
wait_gpu_idle_calls == <<Ev("device_wait_idle", Obj("device", 0, 0))>>

\* Renderer::recreate_swapchain, with the calls in a wrong order
recreate_swapchain_calls_newFirst(old, new) ==
    wait_gpu_idle_calls
    \o Swapchain_new_calls(new)
    \o Swapchain_destroy_calls(old)

\* Renderer::recreate_swapchain
recreate_swapchain_calls(old, new) ==
    wait_gpu_idle_calls
    \o Swapchain_destroy_calls(old)
    \o Swapchain_new_calls(new)

\* SyncObject::destroy
SyncObject_destroy_calls(s) ==
    <<Ev("destroy_semaphore", Obj("semaphore", s, 0)),
      Ev("destroy_semaphore", Obj("semaphore", s, 1)),
      Ev("destroy_fence", Obj("fence", s, 0))>>

RECURSIVE SyncObjects_destroy_calls(_)
SyncObjects_destroy_calls(s) ==
    IF s >= MAX_FRAMES_IN_FLIGHT THEN <<>>
    ELSE SyncObject_destroy_calls(s) \o SyncObjects_destroy_calls(s + 1)

\* Pipeline::destroy
Pipeline_destroy_calls ==
    <<Ev("destroy_pipeline_layout", Obj("pipeline_layout", 0, 0)),
      Ev("destroy_pipeline", Obj("pipeline", 0, 0))>>

\* VoxelShader::destroy
VoxelShader_destroy_calls ==
    Pipeline_destroy_calls
    \o <<Ev("destroy_descriptor_pool", Obj("descriptor_pool", 0, 0)),
         Ev("destroy_descriptor_pool", Obj("descriptor_pool", 1, 0)),
         Ev("destroy_descriptor_set_layout", Obj("descriptor_set_layout", 0, 0)),
         Ev("destroy_descriptor_set_layout", Obj("descriptor_set_layout", 1, 0))>>

\* VkContext::free
VkContext_free_calls(ctx) ==
    <<Ev("destroy_device", Obj("device", 0, 0)),
      Ev("destroy_surface", Obj("surface", 0, 0))>>
    \o (IF ctx.debug_report_callback
        THEN <<Ev("destroy_debug_utils_messenger", Obj("debug_messenger", 0, 0))>>
        ELSE <<>>)
    \o <<Ev("destroy_instance", Obj("instance", 0, 0))>>

\* Drop for Renderer with the context torn down ahead of the swapchain
Renderer_drop_calls_contextFirst(sc, ctx) ==
    VoxelShader_destroy_calls
    \o SyncObjects_destroy_calls(0)
    \o <<Ev("destroy_command_pool", Obj("command_pool", 0, 0))>>
    \o VkContext_free_calls(ctx)
    \o Swapchain_destroy_calls(sc)

\* impl Drop for Renderer
Renderer_drop_calls(sc, ctx) ==
    VoxelShader_destroy_calls
    \o SyncObjects_destroy_calls(0)
    \o <<Ev("destroy_command_pool", Obj("command_pool", 0, 0))>>
    \o Swapchain_destroy_calls(sc)
    \o VkContext_free_calls(ctx)

\* What VkContext::new and Renderer::new leave alive, the swapchain aside.
InitialObjects(ctx) ==
    {Obj("instance", 0, 0), Obj("surface", 0, 0), Obj("device", 0, 0),
     Obj("command_pool", 0, 0),
     Obj("descriptor_set_layout", 0, 0), Obj("descriptor_set_layout", 1, 0),
     Obj("descriptor_pool", 0, 0), Obj("descriptor_pool", 1, 0),
     Obj("pipeline_layout", 0, 0), Obj("pipeline", 0, 0)}
    \cup {Obj("semaphore", s, k) : s \in Slots, k \in {0, 1}}
    \cup {Obj("fence", s, 0) : s \in Slots}
    \cup (IF ctx.debug_report_callback
          THEN {Obj("debug_messenger", 0, 0)} ELSE {})

(* ---- VoxelShader and CommandBuffer: construction ---------------------- *)
\* VoxelShader::new: the global sets, the empty instance list and the sizes
\* of the instance descriptor pool, with what has been allocated from it
VoxelShader_new(swapchain_image_count) ==
    [max_instance_count |-> MaxInstanceCount,
     instances |-> <<>>,
     global_sets |-> swapchain_image_count,
     instance_descriptor_pool |->
        [max_sets |-> swapchain_image_count * MaxInstanceCount,
         descriptor_count |-> 2 * swapchain_image_count,
         sets |-> 0,
         descriptors |-> 0],
     handle |-> <<>>]

\* no CommandBuffer has been allocated
NoCommandBuffer ==
    [state |-> "unallocated", is_primary |-> FALSE, flags |-> {},
     submitted_in |-> "never", fence |-> "none"]

(* ---- initial state: after Renderer::new ------------------------------- *)
\* Renderer::new, for the capabilities and images the driver gave it
Renderer_new(caps, extra, dbg) ==
    /\ current_frame = 0
    /\ sync_objects = [s \in Slots |-> "SIGNALED"]
    /\ swapchain = Swapchain_new(1, caps, extra)
    /\ vk_context = [debug_report_callback |-> dbg]
    /\ dirty_swapchain = FALSE
    /\ live = Apply(InitialObjects([debug_report_callback |-> dbg]),
                    Swapchain_new_calls(Swapchain_new(1, caps, extra)))
    /\ log = <<>>
    /\ lastOp = "new"
    /\ ret = "NONE"
    /\ driver_result = "NONE"
    /\ slot = 0
    /\ calls = 0
    /\ chains = 1
    /\ acquired_rets = {}
    /\ status = "running"
    /\ voxel_shader =
            VoxelShader_new(Len(Swapchain_new(1, caps, extra).images))
    /\ command_buffer = NoCommandBuffer

\* surface_format before the selection has run
NoFormat == [format |-> "NONE", color_space |-> "NONE"]

\* surface_format after the selection panicked (index out of bounds)
PanicFormat == [format |-> "PANIC", color_space |-> "PANIC"]

\* no selection function is being followed
SelectionIdle ==
    /\ available_formats = <<>>
    /\ surface_format = NoFormat
    /\ available_present_modes = <<>>
    /\ present_mode = "NONE"

\* None and Some(i) of Option<u32>
None == <<>>

Some(i) == <<i>>

\* `device` before any physical device was examined
NoDevice ==
    [queue_family_properties |-> <<>>, extension_support |-> FALSE,
     formats_empty |-> TRUE, present_modes_empty |-> TRUE,
     sampler_anisotropy |-> FALSE]

DeviceIdle ==
    /\ enumerated = 0
    /\ device = NoDevice
    /\ found_families = [graphics |-> None, present |-> None]
    /\ passed_over = FALSE
    /\ pick_status = "idle"
    /\ queue_create_infos = <<>>

Init ==
    /\ \E caps \in SurfaceCapabilities, extra \in 0 .. MaxExtraImages,
          dbg \in BOOLEAN : Renderer_new(caps, extra, dbg)
    /\ SelectionIdle
    /\ DeviceIdle

(* ---- operations ------------------------------------------------------- *)
\* Renderer::begin_frame
BeginFrame ==
    /\ status = "running"
    /\ calls < MaxCalls
    /\ \E w \in WaitResults, r \in AcquireResults :
        LET s == current_frame
            signaled == sync_objects[s] = "SIGNALED"
            waited == w = "SUCCESS" /\ signaled
            a == acquire_next_image_index(swapchain, r)
            evs == begin_frame_calls(s, waited, a.value = "Some")
        IN /\ slot' = s
           /\ current_frame' = next_sync_object(current_frame)
           /\ calls' = calls + 1
           /\ log' = evs
           /\ lastOp' = "begin_frame"
           /\ live' = Apply(live, evs)
           /\ IF w = "ERROR_DEVICE_LOST"
              THEN \* wait_for_fences(..).unwrap() panics
                   /\ status' = "panicked"
                   /\ ret' = "NONE"
                   /\ driver_result' = "NONE"
                   /\ UNCHANGED <<sync_objects, swapchain, acquired_rets>>
              ELSE IF ~signaled
              THEN \* the wait has no timeout and nothing signals the fence
                   /\ status' = "blocked"
                   /\ ret' = "NONE"
                   /\ driver_result' = "NONE"
                   /\ UNCHANGED <<sync_objects, swapchain, acquired_rets>>
              ELSE /\ status' = IF a.panic THEN "panicked" ELSE "running"
                   /\ ret' = IF a.panic THEN "NONE"
                             ELSE begin_frame_ret(a.value = "Some")
                   /\ driver_result' = r
                   /\ swapchain' = a.swapchain
                   /\ sync_objects' =
                        [sync_objects EXCEPT ![s] =
                            IF HasCall(evs, "reset_fences")
                            THEN "UNSIGNALED" ELSE @]
                   /\ acquired_rets' =
                        IF a.value = "Some" /\ ~a.panic
                        THEN acquired_rets \cup {begin_frame_ret(TRUE)}
                        ELSE acquired_rets
    /\ UNCHANGED <<vk_context, dirty_swapchain, chains>>
    /\ UNCHANGED <<voxel_shader, aux_vars>>

\* Renderer::end_frame
EndFrame ==
    /\ status = "running"
    /\ lastOp' = "end_frame"
    /\ log' = <<>>
    /\ ret' = "NONE"
    /\ driver_result' = "NONE"
    /\ UNCHANGED <<current_frame, sync_objects, swapchain, vk_context,
                   dirty_swapchain, live, slot, calls, chains,
                   acquired_rets, status>>
    /\ UNCHANGED <<voxel_shader, aux_vars>>

\* Swapchain::present
Present ==
    /\ status = "running"
    /\ \E r \in PresentResults :
        LET p == present(swapchain, r)
        IN /\ swapchain' = p.swapchain
           /\ ret' = p.value
           /\ status' = IF p.panic THEN "panicked" ELSE "running"
           /\ log' = <<Ev("queue_present",
                          Obj("swapchain", swapchain.handle, 0))>>
           /\ driver_result' = r
    /\ lastOp' = "present"
    /\ UNCHANGED <<current_frame, sync_objects, vk_context, dirty_swapchain,
                   live, slot, calls, chains, acquired_rets>>
    /\ UNCHANGED <<voxel_shader, aux_vars>>

\* Renderer::recreate_swapchain
RecreateSwapchain ==
    /\ status = "running"
    /\ chains < MaxChains
    /\ \E new \in {Swapchain_new(chains + 1, caps, extra) :
                        caps \in SurfaceCapabilities,
                        extra \in 0 .. MaxExtraImages} :
        LET evs == recreate_swapchain_calls(swapchain, new)
        IN /\ swapchain' = new
           /\ log' = evs
           /\ live' = Apply(live, evs)
    /\ chains' = chains + 1
    /\ lastOp' = "recreate_swapchain"
    /\ ret' = "NONE"
    /\ driver_result' = "NONE"
    /\ UNCHANGED <<current_frame, sync_objects, vk_context,
                   dirty_swapchain, slot, calls, acquired_rets, status>>
    /\ UNCHANGED <<voxel_shader, aux_vars>>

\* main.rs: WindowEvent::Resized { .. } => dirty_swapchain = true
Resized ==
    /\ status = "running"
    /\ dirty_swapchain' = TRUE
    /\ lastOp' = "resized"
    /\ log' = <<>>
    /\ ret' = "NONE"
    /\ driver_result' = "NONE"
    /\ UNCHANGED <<current_frame, sync_objects, swapchain, vk_context,
                   live, slot, calls, chains, acquired_rets, status>>
    /\ UNCHANGED <<voxel_shader, aux_vars>>

\* impl Drop for Renderer: runs when main returns or unwinds from a panic
Drop ==
    /\ status \in {"running", "panicked"}
    /\ LET evs == Renderer_drop_calls(swapchain, vk_context)
       IN /\ log' = evs
          /\ live' = Apply(live, evs)
    /\ vk_context' = [vk_context EXCEPT !.debug_report_callback = FALSE]
    /\ status' = "dropped"
    /\ lastOp' = "drop"
    /\ ret' = "NONE"
    /\ driver_result' = "NONE"
    /\ UNCHANGED <<current_frame, sync_objects, swapchain, dirty_swapchain,
                   slot, calls, chains, acquired_rets>>
    /\ UNCHANGED <<voxel_shader, aux_vars>>

Next ==
    \/ BeginFrame
    \/ EndFrame
    \/ Present
    \/ RecreateSwapchain
    \/ Resized
    \/ Drop

Spec == Init /\ [][Next]_vars

(* ---- SwapchainSupportDetails: selection of the surface format --------- *)
\* the Renderer of the selection specifications: one fixed construction
RendererFixed ==
    Renderer_new([min_image_count |-> 1, max_image_count |-> 0], 0, FALSE)

Formats == {"UNDEFINED", "B8G8R8A8_UNORM", "R8G8B8A8_SRGB"}

ColorSpaces == {"SRGB_NONLINEAR", "EXTENDED_SRGB_LINEAR_EXT"}

SurfaceFormats == [format : Formats, color_space : ColorSpaces]

\* every list of at most n elements of S
RECURSIVE ListsUpTo(_, _)
ListsUpTo(S, n) ==
    IF n = 0 THEN {<<>>}
    ELSE LET shorter == ListsUpTo(S, n - 1)
         IN shorter \cup {Append(l, x) : l \in shorter, x \in S}

\* the pair choose_swapchain_surface_format prefers
PreferredFormat ==
    [format |-> "B8G8R8A8_UNORM", color_space |-> "SRGB_NONLINEAR"]

\* the smallest element of a non-empty set of numbers
Min(I) == CHOOSE i \in I : \A j \in I : i <= j

\* choose_swapchain_surface_format that tests only the pixel format
choose_swapchain_surface_format_formatOnly(fs) ==
    IF fs = <<>> THEN PanicFormat
    ELSE IF Len(fs) = 1 /\ fs[1].format = "UNDEFINED" THEN PreferredFormat
    ELSE LET found == {i \in DOMAIN fs : fs[i].format = "B8G8R8A8_UNORM"}
         IN IF found /= {} THEN fs[Min(found)] ELSE fs[1]

\* SwapchainSupportDetails::choose_swapchain_surface_format
\* (unwrap_or(&available_formats[0]) indexes the list even when find matches:
\* an empty list panics)
choose_swapchain_surface_format(fs) ==
    IF fs = <<>> THEN PanicFormat
    ELSE IF Len(fs) = 1 /\ fs[1].format = "UNDEFINED" THEN PreferredFormat
    ELSE LET found == {i \in DOMAIN fs :
                            /\ fs[i].format = "B8G8R8A8_UNORM"
                            /\ fs[i].color_space = "SRGB_NONLINEAR"}
         IN IF found /= {} THEN fs[Min(found)] ELSE fs[1]

InitFormat ==
    /\ RendererFixed
    /\ DeviceIdle
    /\ available_formats \in ListsUpTo(SurfaceFormats, MaxFormats)
    /\ surface_format = NoFormat
    /\ available_present_modes = <<>>
    /\ present_mode = "NONE"

ChooseSurfaceFormat ==
    /\ surface_format = NoFormat
    /\ surface_format' = choose_swapchain_surface_format(available_formats)
    /\ UNCHANGED <<fixed_vars, device_vars, available_formats,
                   available_present_modes, present_mode>>

NextFormat == ChooseSurfaceFormat

SpecFormat == InitFormat /\ [][NextFormat]_vars

(* ---- SwapchainSupportDetails: selection of the present mode ----------- *)
PresentModes == {"MAILBOX", "FIFO", "IMMEDIATE"}

Contains(l, x) == \E i \in DOMAIN l : l[i] = x

\* choose_swapchain_surface_present_mode with FIFO tested ahead of MAILBOX
choose_swapchain_surface_present_mode_fifoFirst(ms) ==
    IF Contains(ms, "FIFO") THEN "FIFO"
    ELSE IF Contains(ms, "MAILBOX") THEN "MAILBOX"
    ELSE "IMMEDIATE"

\* SwapchainSupportDetails::choose_swapchain_surface_present_mode
choose_swapchain_surface_present_mode(ms) ==
    IF Contains(ms, "MAILBOX") THEN "MAILBOX"
    ELSE IF Contains(ms, "FIFO") THEN "FIFO"
    ELSE "IMMEDIATE"

InitPresentMode ==
    /\ RendererFixed
    /\ DeviceIdle
    /\ available_formats = <<>>
    /\ surface_format = NoFormat
    /\ available_present_modes \in ListsUpTo(PresentModes, MaxPresentModes)
    /\ present_mode = "NONE"

ChoosePresentMode ==
    /\ present_mode = "NONE"
    /\ present_mode' =
            choose_swapchain_surface_present_mode(available_present_modes)
    /\ UNCHANGED <<fixed_vars, device_vars, available_formats,
                   surface_format, available_present_modes>>

NextPresentMode == ChoosePresentMode

SpecPresentMode == InitPresentMode /\ [][NextPresentMode]_vars

(* ---- VkContext: queue families and physical device selection --------- *)
\* vk::QueueFamilyProperties of one family, with the answer of
\* get_physical_device_surface_support for that family
QueueFamilies ==
    [queue_count : {0, 1}, graphics : BOOLEAN, present_support : BOOLEAN]

\* what the driver reports of one physical device
PhysicalDevices ==
    [queue_family_properties : ListsUpTo(QueueFamilies, MaxFamilies),
     extension_support : BOOLEAN,
     formats_empty : BOOLEAN,
     present_modes_empty : BOOLEAN,
     sampler_anisotropy : BOOLEAN]

\* props.iter().filter(|f| f.queue_count > 0)
HasQueues(f) == f.queue_count > 0

\* the loop of find_queue_families from position i of the filtered list on;
\* enumerate() runs after the filter, so `index` counts the kept families
\* only, while the driver answers for the family it numbers `index` itself
RECURSIVE find_queue_families_loop(_, _, _, _, _)
find_queue_families_loop(props, filtered, i, graphics_index, present_index) ==
    IF i > Len(filtered)
    THEN [graphics |-> graphics_index, present |-> present_index]
    ELSE LET index == i - 1
             family == filtered[i]
             g == IF family.graphics /\ graphics_index = None
                  THEN Some(index) ELSE graphics_index
             present_support == props[index + 1].present_support
             p == IF present_support /\ present_index = None
                  THEN Some(index) ELSE present_index
         IN IF g /= None /\ p /= None
            THEN [graphics |-> g, present |-> p]
            ELSE find_queue_families_loop(props, filtered, i + 1, g, p)

\* VkContext::find_queue_families
find_queue_families(props) ==
    find_queue_families_loop(props, SelectSeq(props, HasQueues), 1,
                             None, None)

\* VkContext::is_device_suitable
is_device_suitable(d) ==
    LET found == find_queue_families(d.queue_family_properties)
        is_swapchain_suitable == ~d.formats_empty /\ ~d.present_modes_empty
    IN /\ found.graphics /= None
       /\ found.present /= None
       /\ d.extension_support
       /\ is_swapchain_suitable
       /\ d.sampler_anisotropy

\* indices.dedup() of create_logical_device_with_graphics_queue
Dedup(graphics_index, present_index) ==
    IF graphics_index = present_index THEN <<graphics_index>>
    ELSE <<graphics_index, present_index>>

\* the five suitability conditions, read off the device's own family list
MeetsAllFive(d) ==
    LET props == d.queue_family_properties
    IN /\ \E i \in DOMAIN props : HasQueues(props[i]) /\ props[i].graphics
       /\ \E i \in DOMAIN props :
                HasQueues(props[i]) /\ props[i].present_support
       /\ d.extension_support
       /\ ~d.formats_empty /\ ~d.present_modes_empty
       /\ d.sampler_anisotropy

InitDevice ==
    /\ RendererFixed
    /\ SelectionIdle
    /\ enumerated = 0
    /\ device = NoDevice
    /\ found_families = [graphics |-> None, present |-> None]
    /\ passed_over = FALSE
    /\ pick_status = "searching"
    /\ queue_create_infos = <<>>

\* find() hands the next enumerated device to is_device_suitable; on the
\* first suitable one pick_physical_device asks for its queue families again
ExamineDevice ==
    /\ pick_status = "searching"
    /\ enumerated < MaxDevices
    /\ \E d \in PhysicalDevices :
         /\ enumerated' = enumerated + 1
         /\ IF is_device_suitable(d)
            THEN /\ device' = d
                 /\ found_families' =
                        find_queue_families(d.queue_family_properties)
                 /\ pick_status' = "picked"
                 /\ UNCHANGED passed_over
            ELSE /\ passed_over' = (passed_over \/ MeetsAllFive(d))
                 /\ UNCHANGED <<device, found_families, pick_status>>
    /\ UNCHANGED <<fixed_vars, selection_vars, queue_create_infos>>

\* find() reaches the end of the list: expect() panics
NoSuitableDevice ==
    /\ pick_status = "searching"
    /\ pick_status' = "panicked"
    /\ UNCHANGED <<fixed_vars, selection_vars, enumerated, device,
                   found_families, passed_over, queue_create_infos>>

\* VkContext::create_logical_device_with_graphics_queue
CreateLogicalDevice ==
    /\ pick_status = "picked"
    /\ queue_create_infos' =
            Dedup(found_families.graphics[1], found_families.present[1])
    /\ pick_status' = "created"
    /\ UNCHANGED <<fixed_vars, selection_vars, enumerated, device,
                   found_families, passed_over>>

NextDevice == ExamineDevice \/ NoSuitableDevice \/ CreateLogicalDevice

SpecDevice == InitDevice /\ [][NextDevice]_vars

\* find_queue_families on its own, for every list of queue families
InitQueueFamilies ==
    /\ RendererFixed
    /\ SelectionIdle
    /\ enumerated = 0
    /\ \E props \in ListsUpTo(QueueFamilies, MaxFamilies) :
            device = [NoDevice EXCEPT !.queue_family_properties = props]
    /\ found_families = [graphics |-> None, present |-> None]
    /\ passed_over = FALSE
    /\ pick_status = "idle"
    /\ queue_create_infos = <<>>

FindQueueFamilies ==
    /\ enumerated = 0
    /\ enumerated' = 1
    /\ found_families' = find_queue_families(device.queue_family_properties)
    /\ UNCHANGED <<fixed_vars, selection_vars, device, passed_over,
                   pick_status, queue_create_infos>>

NextQueueFamilies == FindQueueFamilies

SpecQueueFamilies == InitQueueFamilies /\ [][NextQueueFamilies]_vars

(* ---- VoxelShader: instances and binding ------------------------------- *)
\* whether `count` more sets of the instance set layout (two storage buffer
\* descriptors each) fit the sizes the pool was created with
FitsPool(pool, count) ==
    /\ pool.sets + count <= pool.max_sets
    /\ pool.descriptors + 2 * count <= pool.descriptor_count

\* what allocate_descriptor_sets can answer: an allocation that fits
\* succeeds; one beyond the pool's sizes succeeds or fails with
\* ERROR_OUT_OF_POOL_MEMORY, as the driver likes
AllocateResults(pool, count) ==
    IF FitsPool(pool, count) THEN {"SUCCESS"}
    ELSE {"SUCCESS", "ERROR_OUT_OF_POOL_MEMORY"}

\* FreeList::push_first on a list nothing was released from: the first free
\* slot is the one after the last
FreeList_push_first(list, x) ==
    [list |-> Append(list, x), index |-> Len(list)]

\* VoxelShader::allocate_instance, once allocate_descriptor_sets succeeded
allocate_instance(vs) ==
    LET count == vs.global_sets
        pool == vs.instance_descriptor_pool
        instance == [descriptor_sets |-> count, id |-> 0]
        pushed == FreeList_push_first(vs.instances, instance)
        index == pushed.index
    IN [vs EXCEPT
            !.instance_descriptor_pool =
                [pool EXCEPT !.sets = pool.sets + count,
                             !.descriptors = pool.descriptors + 2 * count],
            !.instances = [pushed.list EXCEPT ![index + 1].id = index],
            !.handle = <<index>>]

AllocateInstance ==
    /\ status = "running"
    /\ Len(voxel_shader.instances) <= MaxInstanceCount
    /\ \E r \in AllocateResults(voxel_shader.instance_descriptor_pool,
                                voxel_shader.global_sets) :
         IF r = "SUCCESS"
         THEN /\ voxel_shader' = allocate_instance(voxel_shader)
              /\ UNCHANGED status
         ELSE /\ status' = "panicked"
              /\ UNCHANGED voxel_shader
    /\ log' = <<Ev("allocate_descriptor_sets", Obj("descriptor_pool", 1, 0))>>
    /\ lastOp' = "allocate_instance"
    /\ ret' = "NONE"
    /\ driver_result' = "NONE"
    /\ UNCHANGED <<current_frame, sync_objects, swapchain, vk_context,
                   dirty_swapchain, live, slot, calls, chains,
                   acquired_rets>>
    /\ UNCHANGED aux_vars

\* VoxelShader::bind for an image index the swapchain can hand out; the slice
\* global_sets[image_index..=image_index] panics beyond the last set
Bind ==
    /\ status = "running"
    /\ \E image_index \in 0 .. (Len(swapchain.images) - 1) :
         IF image_index < voxel_shader.global_sets
         THEN /\ log' = <<Ev("cmd_bind_pipeline", Obj("pipeline", 0, 0)),
                          Ev("cmd_bind_descriptor_sets",
                             Obj("descriptor_set", 0, image_index))>>
              /\ UNCHANGED status
         ELSE /\ log' = <<Ev("cmd_bind_pipeline", Obj("pipeline", 0, 0))>>
              /\ status' = "panicked"
    /\ lastOp' = "bind"
    /\ ret' = "NONE"
    /\ driver_result' = "NONE"
    /\ UNCHANGED <<current_frame, sync_objects, swapchain, vk_context,
                   dirty_swapchain, live, slot, calls, chains,
                   acquired_rets, voxel_shader>>
    /\ UNCHANGED aux_vars

NextShader == AllocateInstance \/ Bind \/ RecreateSwapchain

SpecShader == Init /\ [][NextShader]_vars

(* ---- CommandBuffer ----------------------------------------------------- *)
\* command_buffer.state follows the command buffer lifecycle of Vulkan:
\* "unallocated" | "initial" | "recording" | "executable" | "pending" |
\* "invalid"; the command pool of Renderer::new has no reset flag, so begin
\* is only called in the initial state
UsageFlags(is_single_use, is_render_pass_continue, is_simultaneous_use) ==
    (IF is_single_use THEN {"ONE_TIME_SUBMIT"} ELSE {})
    \cup (IF is_render_pass_continue THEN {"RENDER_PASS_CONTINUE"} ELSE {})
    \cup (IF is_simultaneous_use THEN {"SIMULTANEOUS_USE"} ELSE {})

\* what a step of the command buffer leaves alone
CommandBufferFrame ==
    /\ ret' = "NONE"
    /\ driver_result' = "NONE"
    /\ UNCHANGED <<current_frame, sync_objects, swapchain, vk_context,
                   dirty_swapchain, live, slot, calls, chains,
                   acquired_rets, status, voxel_shader>>
    /\ UNCHANGED <<selection_vars, device_vars>>

\* CommandBuffer::new
CommandBuffer_new ==
    /\ status = "running"
    /\ command_buffer.state = "unallocated"
    /\ \E is_primary \in BOOLEAN :
         command_buffer' = [NoCommandBuffer EXCEPT !.state = "initial",
                                                   !.is_primary = is_primary]
    /\ log' = <<Ev("allocate_command_buffers", Obj("command_buffer", 0, 0))>>
    /\ lastOp' = "CommandBuffer::new"
    /\ CommandBufferFrame

\* CommandBuffer::begin
CommandBuffer_begin ==
    /\ status = "running"
    /\ command_buffer.state = "initial"
    /\ \E is_single_use, is_render_pass_continue, is_simultaneous_use
            \in BOOLEAN :
         command_buffer' =
            [command_buffer EXCEPT
                !.state = "recording",
                !.flags = UsageFlags(is_single_use, is_render_pass_continue,
                                     is_simultaneous_use)]
    /\ log' = <<Ev("begin_command_buffer", Obj("command_buffer", 0, 0))>>
    /\ lastOp' = "begin"
    /\ CommandBufferFrame

\* CommandBuffer::end
CommandBuffer_end ==
    /\ status = "running"
    /\ command_buffer.state = "recording"
    /\ command_buffer' = [command_buffer EXCEPT !.state = "executable"]
    /\ log' = <<Ev("end_command_buffer", Obj("command_buffer", 0, 0))>>
    /\ lastOp' = "end"
    /\ CommandBufferFrame

\* the device calls of CommandBuffer::end_and_submit_single_use
end_and_submit_single_use_calls ==
    <<Ev("queue_submit", Obj("command_buffer", 0, 0))>>

\* CommandBuffer::end_and_submit_single_use, called on the unit begin opened
\* or on one that end closed. Submitting a buffer that is still recording is
\* outside what Vulkan defines: the driver takes it or leaves it invalid.
CommandBuffer_end_and_submit_single_use ==
    /\ status = "running"
    /\ command_buffer.state \in {"recording", "executable"}
    /\ \E after \in (IF command_buffer.state = "executable"
                     THEN {"pending"} ELSE {"pending", "invalid"}) :
         command_buffer' =
            [command_buffer EXCEPT !.state = after,
                                   !.submitted_in = command_buffer.state,
                                   !.fence = "null"]
    /\ log' = end_and_submit_single_use_calls
    /\ lastOp' = "end_and_submit_single_use"
    /\ CommandBufferFrame

\* the queue finishes the submitted buffer
QueueExecutes ==
    /\ status = "running"
    /\ command_buffer.state = "pending"
    /\ command_buffer' =
         [command_buffer EXCEPT
            !.state = IF "ONE_TIME_SUBMIT" \in command_buffer.flags
                      THEN "invalid" ELSE "executable"]
    /\ log' = <<>>
    /\ lastOp' = "queue_executes"
    /\ CommandBufferFrame

\* CommandBuffer::destroy
CommandBuffer_destroy ==
    /\ status = "running"
    /\ command_buffer.state \in {"initial", "recording", "executable",
                                 "invalid"}
    /\ command_buffer' = NoCommandBuffer
    /\ log' = <<Ev("free_command_buffers", Obj("command_buffer", 0, 0))>>
    /\ lastOp' = "CommandBuffer::destroy"
    /\ CommandBufferFrame

NextCommandBuffer ==
    \/ CommandBuffer_new
    \/ CommandBuffer_begin
    \/ CommandBuffer_end
    \/ CommandBuffer_end_and_submit_single_use
    \/ QueueExecutes
    \/ CommandBuffer_destroy

SpecCommandBuffer == Init /\ [][NextCommandBuffer]_vars

(* ======================================================================= *)
(* Properties                                                              *)
(* ======================================================================= *)
\* every call named c1 in evs comes before every call named c2
Before(evs, c1, c2) ==
    \A p, q \in DOMAIN evs :
        (evs[p].call = c1 /\ evs[q].call = c2) => p < q

\* C1: with two frames in flight, the k-th call of next_sync_object (k from
\* 0) returns slot k mod 2, and current_frame is always 0 or 1.
C1_SlotCycles ==
    /\ current_frame \in {0, 1}
    /\ current_frame = calls % 2
    /\ (calls > 0) => (slot = (calls - 1) % 2)

\* C1 witness: after three calls the third one returned slot 0 again.
C1_Witness == calls = 3 /\ slot = 0 /\ current_frame = 1

\* C2: when the acquire of begin_frame reports out-of-date, the dirty flag is
\* set, nothing is submitted or presented, nothing panics, and the value
\* begin_frame returns differs from the one it returns for a frame that
\* acquired an image, so that the caller can tell the two apart.
C2_StaleFrameAbandonedAndTold ==
    (lastOp = "begin_frame" /\ driver_result = "ERROR_OUT_OF_DATE_KHR") =>
        /\ swapchain.out_of_date
        /\ ~HasCall(log, "queue_submit")
        /\ ~HasCall(log, "queue_present")
        /\ status = "running"
        /\ \A v \in acquired_rets : v /= ret

\* C3: an acquire failure other than out-of-date is fatal: begin_frame does
\* not return from it as it does from a stale acquire.
C3_OtherAcquireErrorIsFatal ==
    (lastOp = "begin_frame" /\ driver_result = "ERROR_DEVICE_LOST") =>
        status = "panicked"

\* C4: present returns true for a successful present, returns false with the
\* dirty flag set for an out-of-date one, and panics on every other error.
C4_PresentOutcome ==
    (lastOp = "present") =>
        /\ (driver_result \in {"SUCCESS", "SUBOPTIMAL_KHR"}) =>
                (status = "running" /\ ret = TRUE)
        /\ (driver_result = "ERROR_OUT_OF_DATE_KHR") =>
                (status = "running" /\ ret = FALSE /\ swapchain.out_of_date)
        /\ (driver_result = "ERROR_DEVICE_LOST") => (status = "panicked")

\* C5: recreate_swapchain waits for the device to be idle, then destroys the
\* current swapchain, then queries the surface and creates the new one;
\* afterwards the dirty flag is clear, there is one image view per image of
\* the new chain, and the context, the sync slots and the frame cursor are as
\* they were.
C5_RecreateSwapchain ==
    [][(lastOp' = "recreate_swapchain") =>
        /\ log'[1].call = "device_wait_idle"
        /\ Before(log', "device_wait_idle", "destroy_image_view")
        /\ Before(log', "device_wait_idle", "destroy_swapchain")
        /\ Before(log', "destroy_swapchain", "get_surface_capabilities")
        /\ Before(log', "get_surface_capabilities", "create_swapchain")
        /\ \E p, q \in DOMAIN log' :
            /\ log'[p] = Ev("destroy_swapchain",
                            Obj("swapchain", swapchain.handle, 0))
            /\ log'[q] = Ev("create_swapchain",
                            Obj("swapchain", swapchain'.handle, 0))
        /\ swapchain'.handle /= swapchain.handle
        /\ Obj("swapchain", swapchain.handle, 0) \notin live'
        /\ Obj("swapchain", swapchain'.handle, 0) \in live'
        /\ swapchain'.out_of_date = FALSE
        /\ Len(swapchain'.image_views) = Len(swapchain'.images)
        /\ \A i \in DOMAIN swapchain'.image_views :
                swapchain'.image_views[i] \in live'
        /\ vk_context' = vk_context
        /\ sync_objects' = sync_objects
        /\ current_frame' = current_frame
      ]_vars

\* C5 witness: a recreation that replaced a dirty chain by one of 3 images.
C5_Witness ==
    /\ lastOp = "recreate_swapchain"
    /\ swapchain.handle = 2
    /\ Len(swapchain.image_views) = 3
    /\ calls > 0

\* C6: once a resize was delivered or the chain was reported stale, no frame
\* acquires an image from that chain: recreation comes first.
C6_NoFrameOnStaleChain ==
    [][(swapchain.out_of_date \/ (dirty_swapchain /\ lastOp = "resized")) =>
        ~(lastOp' = "begin_frame" /\ HasCall(log', "acquire_next_image"))
      ]_vars

\* C7 as stated: in a frame that acquires, the slot's fence is waited on, then
\* reset, and only then is the image acquired.
C7_WaitResetAcquire ==
    (lastOp = "begin_frame" /\ HasCall(log, "acquire_next_image")) =>
        \E p, q, r \in DOMAIN log :
            /\ p < q /\ q < r
            /\ log[p] = Ev("wait_for_fences", Obj("fence", slot, 0))
            /\ log[q] = Ev("reset_fences", Obj("fence", slot, 0))
            /\ log[r] = Ev("acquire_next_image", Obj("semaphore", slot, 0))

\* C7 amended: begin_frame first waits on the slot's fence, then acquires the
\* image with the slot's image-available semaphore, and resets the fence
\* after the acquire, and only when the acquire returned an image.
C7_WaitAcquireReset ==
    (lastOp = "begin_frame") =>
        /\ log[1] = Ev("wait_for_fences", Obj("fence", slot, 0))
        /\ HasCall(log, "acquire_next_image") =>
                log[2] = Ev("acquire_next_image", Obj("semaphore", slot, 0))
        /\ HasCall(log, "reset_fences") <=>
                (driver_result \in {"SUCCESS", "SUBOPTIMAL_KHR"})
        /\ HasCall(log, "reset_fences") =>
                /\ Len(log) = 3
                /\ log[3] = Ev("reset_fences", Obj("fence", slot, 0))
                /\ sync_objects[slot] = "UNSIGNALED"
        /\ Before(log, "wait_for_fences", "acquire_next_image")
        /\ Before(log, "acquire_next_image", "reset_fences")

\* C7 witness: a frame that acquired an image and reset its fence.
C7_Witness ==
    /\ lastOp = "begin_frame"
    /\ driver_result = "SUCCESS"
    /\ Len(log) = 3
    /\ sync_objects[slot] = "UNSIGNALED"

\* C8: a fence that begin_frame reset is signalled again by the work of its
\* frame, so no begin_frame stays in its fence wait forever.
C8_FenceWaitNeverBlocks == status /= "blocked"

\* C9: at the moment a swapchain handle is destroyed, none of its image views
\* is alive.
C9_ViewsBeforeChain ==
    [][\A p \in DOMAIN log' :
        (log'[p].call = "destroy_swapchain") =>
            /\ \A o \in LiveAt(live, log', p) :
                    ~(o.kind = "image_view" /\ o.id = log'[p].obj.id)
            /\ \A i \in DOMAIN swapchain.image_views :
                \E q \in 1 .. (p - 1) :
                    log'[q] = Ev("destroy_image_view", swapchain.image_views[i])
      ]_vars

\* C9 witness: a swapchain of three views was destroyed by Swapchain::destroy.
C9_Witness ==
    /\ HasCall(log, "destroy_swapchain")
    /\ Cardinality({p \in DOMAIN log : log[p].call = "destroy_image_view"}) = 3

\* C10: when the Renderer is dropped, no object created from the logical
\* device is alive at the moment the device is destroyed, and the context is
\* torn down as device, surface, debug messenger (if any), instance, these
\* being the last calls; nothing is left alive.
C10_TeardownOrder ==
    [][(lastOp' = "drop") =>
        /\ \A p \in DOMAIN log' :
            (log'[p].call = "destroy_device") =>
                /\ \A o \in LiveAt(live, log', p) :
                        o.kind \notin DeviceChildKinds
                /\ SubSeq(log', p, Len(log')) = VkContext_free_calls(vk_context)
        /\ HasCall(log', "destroy_device")
        /\ Before(log', "destroy_device", "destroy_surface")
        /\ Before(log', "destroy_surface", "destroy_debug_utils_messenger")
        /\ Before(log', "destroy_debug_utils_messenger", "destroy_instance")
        /\ Before(log', "destroy_surface", "destroy_instance")
        /\ log'[Len(log')].call = "destroy_instance"
        /\ HasCall(log', "destroy_debug_utils_messenger")
                <=> vk_context.debug_report_callback
        /\ live' = {}
      ]_vars

\* C10 witness: a Renderer with a debug messenger and a recreated swapchain
\* was dropped.
C10_Witness ==
    /\ status = "dropped"
    /\ HasCall(log, "destroy_debug_utils_messenger")
    /\ swapchain.handle = 2
    /\ live = {}

\* C11: Pipeline::destroy destroys the compute pipeline before the pipeline
\* layout, so that the layout is alive when the pipeline is destroyed.
C11_PipelineBeforeLayout ==
    HasCall(log, "destroy_pipeline") =>
        /\ HasCall(log, "destroy_pipeline_layout")
        /\ Before(log, "destroy_pipeline", "destroy_pipeline_layout")

\* C12: for every non-empty list of available formats, the selected format
\* is the preferred pair when the list is the single undefined placeholder,
\* else the preferred pair when the list contains it, else the first format
\* of the list.
C12_SurfaceFormatSelection ==
    (surface_format /= NoFormat /\ available_formats /= <<>>) =>
        IF /\ Len(available_formats) = 1
           /\ available_formats[1].format = "UNDEFINED"
        THEN surface_format = PreferredFormat
        ELSE IF Contains(available_formats, PreferredFormat)
        THEN surface_format = PreferredFormat
        ELSE surface_format = available_formats[1]

\* C12 witness: the preferred pair was picked from behind a first entry that
\* has the preferred pixel format in another colour space.
C12_Witness ==
    /\ Len(available_formats) = 3
    /\ available_formats[1] = [format |-> "B8G8R8A8_UNORM",
                               color_space |-> "EXTENDED_SRGB_LINEAR_EXT"]
    /\ available_formats[3] = PreferredFormat
    /\ surface_format = PreferredFormat

\* C13 as stated: over every subset of {mailbox, FIFO, immediate}, the selected
\* mode is mailbox if available, else FIFO if available, else immediate, and
\* it is one of the available modes.
C13_PresentModeSelectionAvailable ==
    (present_mode /= "NONE") =>
        /\ present_mode =
            IF Contains(available_present_modes, "MAILBOX") THEN "MAILBOX"
            ELSE IF Contains(available_present_modes, "FIFO") THEN "FIFO"
            ELSE "IMMEDIATE"
        /\ Contains(available_present_modes, present_mode)

\* C13 amended: the selected mode is mailbox if available, else FIFO if
\* available, else immediate; it is one of the available modes whenever at
\* least one of the three modes is available.
C13_PresentModeSelection ==
    (present_mode /= "NONE") =>
        /\ Contains(available_present_modes, "MAILBOX")
                => present_mode = "MAILBOX"
        /\ (/\ ~Contains(available_present_modes, "MAILBOX")
            /\ Contains(available_present_modes, "FIFO"))
                => present_mode = "FIFO"
        /\ (/\ ~Contains(available_present_modes, "MAILBOX")
            /\ ~Contains(available_present_modes, "FIFO"))
                => present_mode = "IMMEDIATE"
        /\ (available_present_modes /= <<>>)
                => Contains(available_present_modes, present_mode)

\* C13 witness: FIFO was selected from a list that offers FIFO and immediate
\* with immediate listed first.
C13_Witness ==
    /\ available_present_modes = <<"IMMEDIATE", "FIFO">>
    /\ present_mode = "FIFO"

\* C14: the selected device is the first enumerated one that meets all five
\* suitability conditions: it meets them and no device that meets them was
\* rejected before it; initialization is fatal only when no enumerated device
\* meets all five, and a logical device is created only for a selected device.
C14_FirstSuitableDevice ==
    /\ (pick_status \in {"picked", "created"}) =>
            MeetsAllFive(device) /\ ~passed_over
    /\ (pick_status = "panicked") => ~passed_over
    /\ (queue_create_infos /= <<>>) => pick_status = "created"

\* C18: the indices find_queue_families returns are positions in the device's
\* own family list: the graphics index names a family with graphics
\* capability and at least one queue, the present index a family for which
\* presentation support was reported.
C18_IndicesNameOwnFamilies ==
    (pick_status = "idle" /\ enumerated = 1) =>
        LET props == device.queue_family_properties
            g == found_families.graphics
            p == found_families.present
        IN /\ (g /= None) =>
                /\ (g[1] + 1) \in DOMAIN props
                /\ props[g[1] + 1].graphics
                /\ HasQueues(props[g[1] + 1])
           /\ (p /= None) =>
                /\ (p[1] + 1) \in DOMAIN props
                /\ props[p[1] + 1].present_support

\* C15: an allocate call made with fewer than max_instance_count instances
\* succeeds and returns a handle below max_instance_count that equals the id
\* of the instance it stored, all stored ids are pairwise distinct, and the
\* instance descriptor pool holds what has been allocated from it.
C15_FirstAllocationsSucceed ==
    LET instances == voxel_shader.instances
        pool == voxel_shader.instance_descriptor_pool
    IN /\ (lastOp = "allocate_instance" /\ status = "panicked") =>
                Len(instances) >= voxel_shader.max_instance_count
       /\ (lastOp = "allocate_instance" /\ status = "running"
           /\ Len(instances) <= voxel_shader.max_instance_count) =>
                /\ voxel_shader.handle = <<Len(instances) - 1>>
                /\ instances[Len(instances)].id = Len(instances) - 1
                /\ \A i, j \in DOMAIN instances :
                        instances[i].id = instances[j].id => i = j
                /\ pool.sets <= pool.max_sets
                /\ pool.descriptors <= pool.descriptor_count

\* C16: an allocate call made with max_instance_count live instances does not
\* crash, hands out no handle, and leaves the registry and the pool as they
\* were.
C16_AllocateAtCapRejected ==
    [][(/\ lastOp' = "allocate_instance"
        /\ Len(voxel_shader.instances) >= voxel_shader.max_instance_count)
            => /\ status' = "running"
               /\ voxel_shader'.instances = voxel_shader.instances
               /\ voxel_shader'.instance_descriptor_pool =
                        voxel_shader.instance_descriptor_pool]_vars

\* C19: whatever swapchain recreations happened, the number of global sets is
\* the current swapchain image count, an instance allocated now gets as many
\* sets, and bind stays within bounds for every image index of the current
\* swapchain.
C19_SetsFollowImageCount ==
    /\ voxel_shader.global_sets = Len(swapchain.images)
    /\ (lastOp = "allocate_instance" /\ status = "running") =>
            voxel_shader.instances[Len(voxel_shader.instances)].descriptor_sets
                = Len(swapchain.images)
    /\ (lastOp = "bind") => status = "running"

\* C17: end_and_submit_single_use ends the command buffer and then submits
\* it, with no fence; the buffer is never submitted while still recording.
C17_EndThenSubmit ==
    /\ (lastOp = "end_and_submit_single_use") =>
            /\ HasCall(log, "end_command_buffer")
            /\ Before(log, "end_command_buffer", "queue_submit")
            /\ command_buffer.fence = "null"
    /\ command_buffer.submitted_in /= "recording"

====
